---- MODULE Spec2Model ----
(***************************************************************************)
(* A model of unmht-aws: the grid detector (prime and its helpers), the    *)
(* skeleton index (Rows.Find, Cols.Find, Shift, Split), the cell assigner  *)
(* (scan, parseDate, parseTime) and the analytics (average, domagic,       *)
(* fixEntry).                                                              *)
(***************************************************************************)
EXTENDS Integers, Sequences, FiniteSets, TLC

VARIABLES
    img,      \* the decoded picture handed to prime (see At)
    pc,       \* the position of the modelled call
    rows,     \* Skeleton.Rows: a sequence of [Num, Top, Bottom]
    cols,     \* Skeleton.Cols: a sequence of [Num, Left, Right]
    skW,      \* Skeleton.W
    skH,      \* Skeleton.H
    res,      \* how the call ended: "none", "ok", "error" or "panic"
    txt,      \* the text handed to parseDate: a sequence of characters
    parsed,   \* what parseDate returned for txt
    dts,      \* scan: the detections, sorted by Left
    idx,      \* scan: the index in dts of the detection to handle next
    entries,  \* the Entry sequence scan builds and domagic reads
    magic,    \* what domagic returned, with the two averages it used
    aux       \* bookkeeping of the specification at hand (a record)

gridVars == <<img, rows, cols, skW, skH>>
textVars == <<txt, parsed>>
scanVars == <<dts, idx, entries>>
vars == <<img, pc, rows, cols, skW, skH, res, txt, parsed, dts, idx, entries,
          magic, aux>>

(***************************************************************************)
(* Bounds of the model.                                                    *)
(***************************************************************************)
ImgW == 13         \* width of the pictures
ImgH == 60         \* height of the pictures
MaxRow0 == 4       \* the table's top edge lies on line 0 or on line MaxRow0
MaxLineStart == 4  \* the top edge starts at one of the columns 0..MaxLineStart
MaxLineCut == 2    \* ... and ends at most MaxLineCut short of the right border
MaxRowSpan == 2    \* row dividers are drawn 1..MaxRowSpan below the top edge
FarRow == 54       \* ... or FarRow below it (beyond maxHeight of the top edge)

(***************************************************************************)
(* Pictures.                                                               *)
(* A picture is w wide and h high.  It is white but for                    *)
(*   - the top edge of the table: a black run a..b on line top,            *)
(*   - the pixel (0, top): black, or some other colour, or white,          *)
(*   - vertical dividers: for x in arms, black from top-4 to top+4,        *)
(*   - row dividers: black pixels in the sample column w-5 at the          *)
(*     lines top+o for o in marks.                                         *)
(* A pixel outside the picture reads as the zero colour, which is neither  *)
(* white nor black (image.NRGBA.At).                                       *)
(***************************************************************************)
At(im, x, y) ==
    IF x < 0 \/ x >= im.w \/ y < 0 \/ y >= im.h THEN "zero"
    ELSE IF y = im.top /\ x >= im.a /\ x <= im.b THEN "black"
    ELSE IF x = 0 THEN (IF y = im.top THEN im.left ELSE "white")
    ELSE IF x \in im.arms /\ y >= im.top - 4 /\ y <= im.top + 4 THEN "black"
    ELSE IF x = im.w - 5 /\ (y - im.top) \in im.marks THEN "black"
    ELSE "white"

white == "white"
black == "black"

RowOffsets == (1..MaxRowSpan) \cup {FarRow}

\* the top edge: <<a, b, colour of the pixel (0, top)>>; <<0, -1, c>> is no edge
Lines ==
    { <<0, b, "black">> : b \in (ImgW - 1 - MaxLineCut)..(ImgW - 1) }
    \cup { <<a, b, c>> : a \in 1..MaxLineStart,
                        b \in (ImgW - 1 - MaxLineCut)..(ImgW - 1),
                        c \in {"gray", "white"} }
    \cup { <<0, -1, c>> : c \in {"gray", "white"} }

\* dividers need 4 pixels above the top edge and 4 pixels each side
ArmSets(t) == IF t < 4 THEN {{}} ELSE SUBSET (4..(ImgW - 5))

Images ==
    UNION { { [w |-> ImgW, h |-> ImgH,
               top |-> t, a |-> l[1], b |-> l[2], left |-> l[3],
               arms |-> ar, marks |-> m] :
                l \in Lines, ar \in ArmSets(t), m \in SUBSET RowOffsets } :
            t \in {0, MaxRow0} }

SetMin(S) == CHOOSE m \in S : \A n \in S : m <= n

(***************************************************************************)
(* The skeleton index.                                                     *)
(***************************************************************************)
NotFound == [ok |-> FALSE, v |-> 0]
Found(n) == [ok |-> TRUE, v |-> n]

\* a Find that takes the bounds of a row as exclusive
RowsFindExclusive(rs, y) ==
    LET hit == {i \in 1..Len(rs) : y > rs[i].Top /\ y < rs[i].Bottom}
    IN  IF hit = {} THEN NotFound ELSE Found(rs[SetMin(hit)].Num)

\* Rows.Find: the Num of the first row whose inclusive range holds y
RowsFind(rs, y) ==
    LET hit == {i \in 1..Len(rs) : y >= rs[i].Top /\ y <= rs[i].Bottom}
    IN  IF hit = {} THEN NotFound ELSE Found(rs[SetMin(hit)].Num)

\* a Shift that places the rows at offset from where they were detected
RowsShiftAbsolute(rs, offset) ==
    [i \in 1..Len(rs) |->
        [Num |-> rs[i].Num, Top |-> rs[i].Top - rs[1].Top + offset,
         Bottom |-> rs[i].Bottom - rs[1].Top + offset]]

\* Rows.Shift: every bound moves by offset
RowsShift(rs, offset) ==
    [i \in 1..Len(rs) |->
        [Num |-> rs[i].Num, Top |-> rs[i].Top + offset,
         Bottom |-> rs[i].Bottom + offset]]

\* Cols.Find
ColsFind(cs, x) ==
    LET hit == {i \in 1..Len(cs) : x >= cs[i].Left /\ x <= cs[i].Right}
    IN  IF hit = {} THEN NotFound ELSE Found(cs[SetMin(hit)].Num)

\* Cols.Shift
ColsShift(cs, offset) ==
    [i \in 1..Len(cs) |->
        [Num |-> cs[i].Num, Left |-> cs[i].Left + offset,
         Right |-> cs[i].Right + offset]]

\* Col.Split: two columns meeting at Right - size/2
ColSplit(c) ==
    LET size == c.Right - c.Left
        c1 == [Num |-> c.Num, Left |-> c.Left, Right |-> c.Right - (size \div 2)]
        c2 == [Num |-> c.Num + 1, Left |-> c1.Right, Right |-> c.Right]
    IN  <<c1, c2>>

(***************************************************************************)
(* The grid detector.                                                      *)
(***************************************************************************)
\* findRow0: the first line whose pixel in column 0 is not white
findRow0(im) ==
    LET ys == {y \in 0..(im.h - 1) : At(im, 0, y) # white}
    IN  IF ys = {} THEN NotFound ELSE Found(SetMin(ys))

\* findCol0: the first black pixel of line row0, from x = 3 on
findCol0(im, row0) ==
    LET xs == {x \in 3..(im.w - 1) : At(im, x, row0) = black}
    IN  IF xs = {} THEN NotFound ELSE Found(SetMin(xs))

maxHeight == 50

RECURSIVE findRowsLoop(_, _, _, _)
findRowsLoop(im, y, currTop, rs) ==
    IF y >= im.h THEN rs
    ELSE IF At(im, im.w - 5, y) # black
         THEN IF y - currTop > maxHeight THEN rs
              ELSE findRowsLoop(im, y + 1, currTop, rs)
         ELSE findRowsLoop(im, y + 1, y,
                  Append(rs, [Num |-> Len(rs), Top |-> currTop, Bottom |-> y]))

\* findRows: the rows closed by the black pixels of the sample column
findRows(im, row0) == findRowsLoop(im, row0 + 1, row0, <<>>)

\* isCol: the plus-shaped marker, 4 black pixels each way
isCol(im, x, y) ==
    \A i \in 0..4 :
        /\ At(im, x + i, y) = black
        /\ At(im, x - i, y) = black
        /\ At(im, x, y + i) = black
        /\ At(im, x, y - i) = black

RECURSIVE findColsLoop(_, _, _, _, _)
findColsLoop(im, row0, x, currLeft, cs) ==
    IF x >= im.w THEN cs
    ELSE IF ~isCol(im, x, row0) THEN findColsLoop(im, row0, x + 1, currLeft, cs)
    ELSE LET cs2 == Append(cs, [Num |-> Len(cs), Left |-> currLeft, Right |-> x])
         IN  IF Len(cs2) = 3 THEN cs2
             ELSE findColsLoop(im, row0, x + 1, x, cs2)

\* findCols: the columns closed by the first three markers of line row0
findCols(im, row0, col0) == findColsLoop(im, row0, col0 + 1, col0, <<>>)

\* prime, lines 420-426: shift, halve the first column, split the last
Reconcile(cs) ==
    LET sh == ColsShift(cs, -cs[1].Left)
        hv == [sh EXCEPT ![1].Right = sh[1].Right \div 2]
    IN  SubSeq(hv, 1, Len(hv) - 1) \o ColSplit(hv[Len(hv)])

NoGrid(r) == [res |-> r, rows |-> <<>>, cols |-> <<>>]

\* prime, lines 399-418: the origins, the raw rows and columns, and draw,
\* which indexes rows[0] and cols[0] and so panics on an empty sequence
detect(im) ==
    LET r0 == findRow0(im) IN
    IF ~r0.ok THEN NoGrid("error")
    ELSE LET c0 == findCol0(im, r0.v) IN
    IF ~c0.ok THEN NoGrid("error")
    ELSE LET rs == findRows(im, r0.v)
             cs == findCols(im, r0.v, c0.v) IN
    IF rs = <<>> \/ cs = <<>> THEN NoGrid("panic")
    ELSE [res |-> "ok", rows |-> rs, cols |-> cs]

\* prime: what the call returns for a picture
primeOf(im) ==
    LET d == detect(im) IN
    IF d.res # "ok" THEN [res |-> d.res, rows |-> <<>>, cols |-> <<>>, W |-> 0, H |-> 0]
    ELSE [res |-> "ok",
          rows |-> RowsShift(d.rows, -d.rows[1].Top),
          cols |-> Reconcile(d.cols),
          W |-> d.cols[Len(d.cols)].Right - d.cols[1].Left,
          H |-> d.rows[Len(d.rows)].Bottom - d.rows[1].Top]

NoAux == [k |-> "none"]

\* the values of the variables a specification does not use
NoText == txt = <<>> /\ parsed = [ok |-> FALSE]
NoScan == dts = <<>> /\ idx = 0 /\ entries = <<>>
NoMagic == magic = [k |-> "none"]
NoGridYet == rows = <<>> /\ cols = <<>> /\ skW = 0 /\ skH = 0

Init ==
    /\ img \in Images
    /\ pc = "start"
    /\ rows = <<>>
    /\ cols = <<>>
    /\ skW = 0
    /\ skH = 0
    /\ res = "none"
    /\ aux = NoAux
    /\ NoText /\ NoScan /\ NoMagic

Prime ==
    /\ pc = "start"
    /\ \E p \in {primeOf(img)} :
        /\ rows' = p.rows
        /\ cols' = p.cols
        /\ skW' = p.W
        /\ skH' = p.H
        /\ res' = p.res
    /\ pc' = "done"
    /\ UNCHANGED <<img, aux, textVars, scanVars, magic>>

Next == Prime

Spec == Init /\ [][Next]_vars

(***************************************************************************)
(* Re-basing.  prime shifts the raw rows by -rows[0].Top and the raw       *)
(* columns by -cols[0].Left, once.  Here the detected rows and columns are *)
(* shifted, and then shifted again: by the same offsets (ShiftSame) or by  *)
(* the offsets computed anew from the shifted skeleton (ShiftRebase).      *)
(***************************************************************************)
MaxShifts == 3

InitShift ==
    /\ img \in Images
    /\ pc = "detect"
    /\ rows = <<>>
    /\ cols = <<>>
    /\ skW = 0
    /\ skH = 0
    /\ res = "none"
    /\ aux = [k |-> "shift", offR |-> 0, offC |-> 0, n |-> 0, same |-> 0,
              rows1 |-> <<>>, cols1 |-> <<>>]
    /\ NoText /\ NoScan /\ NoMagic

Detect ==
    /\ pc = "detect"
    /\ \E d \in {detect(img)} :
        /\ rows' = d.rows
        /\ cols' = d.cols
        /\ res' = d.res
        /\ pc' = IF d.res = "ok" THEN "shift" ELSE "done"
    /\ UNCHANGED <<img, skW, skH, aux, textVars, scanVars, magic>>

ShiftFirst ==
    /\ pc = "shift"
    /\ \E offR \in {-rows[1].Top}, offC \in {-cols[1].Left} :
        /\ rows' = RowsShift(rows, offR)
        /\ cols' = ColsShift(cols, offC)
        /\ aux' = [aux EXCEPT !.offR = offR, !.offC = offC, !.n = 1,
                               !.rows1 = rows', !.cols1 = cols']
    /\ pc' = "shifted"
    /\ UNCHANGED <<img, skW, skH, res, textVars, scanVars, magic>>

ShiftSame ==
    /\ pc = "shifted"
    /\ aux.n < MaxShifts
    /\ rows' = RowsShift(rows, aux.offR)
    /\ cols' = ColsShift(cols, aux.offC)
    /\ aux' = [aux EXCEPT !.n = @ + 1, !.same = @ + 1]
    /\ UNCHANGED <<img, pc, skW, skH, res, textVars, scanVars, magic>>

ShiftRebase ==
    /\ pc = "shifted"
    /\ aux.n < MaxShifts
    /\ rows' = RowsShift(rows, -rows[1].Top)
    /\ cols' = ColsShift(cols, -cols[1].Left)
    /\ aux' = [aux EXCEPT !.n = @ + 1, !.same = 0]
    /\ UNCHANGED <<img, pc, skW, skH, res, textVars, scanVars, magic>>

NextShift == Detect \/ ShiftFirst \/ ShiftSame \/ ShiftRebase

SpecShift == InitShift /\ [][NextShift]_vars

(***************************************************************************)
(* Dates and times.  A text is a sequence of one-character strings.  A     *)
(* time.Time is the record [y, m, d, h, mi]; the zero time.Time is         *)
(* 1 January of year 1, 00:00.  time.Parse is modelled for the three       *)
(* layouts of the program: dateFormat "02012006", timeFormat               *)
(* "0201200615.04" and timeFormat2 "020120061504".                         *)
(***************************************************************************)
Digits == <<"0", "1", "2", "3", "4", "5", "6", "7", "8", "9">>

isDigit(s, i) == i <= Len(s) /\ \E k \in 1..10 : Digits[k] = s[i]
digitVal(c) == (CHOOSE k \in 1..10 : Digits[k] = c) - 1

zeroTime == [y |-> 1, m |-> 1, d |-> 1, h |-> 0, mi |-> 0]
ParseErr == [ok |-> FALSE, t |-> zeroTime]

\* time.getnum: one or two digits; exactly two when fixed
getnum(s, fixed) ==
    IF ~isDigit(s, 1) THEN [ok |-> FALSE, n |-> 0, rest |-> s]
    ELSE IF ~isDigit(s, 2)
         THEN IF fixed THEN [ok |-> FALSE, n |-> 0, rest |-> s]
              ELSE [ok |-> TRUE, n |-> digitVal(s[1]), rest |-> Tail(s)]
         ELSE [ok |-> TRUE, n |-> 10 * digitVal(s[1]) + digitVal(s[2]),
               rest |-> SubSeq(s, 3, Len(s))]

isLeap(y) == y % 4 = 0 /\ (y % 100 # 0 \/ y % 400 = 0)

daysIn(m, y) ==
    IF m = 2 THEN (IF isLeap(y) THEN 29 ELSE 28)
    ELSE IF m \in {4, 6, 9, 11} THEN 30 ELSE 31

\* time.Parse for the layouts "02012006" (layout = "date"), "0201200615.04"
\* ("dotted") and "020120061504" ("plain"): day and month of two digits,
\* year of four, then the hour of one or two digits, the dot, the minute of
\* two digits; nothing may follow; the day must exist in the month
timeParse(layout, value) ==
    LET dd == getnum(value, TRUE) IN
    IF ~dd.ok THEN ParseErr ELSE
    LET mm == getnum(dd.rest, TRUE) IN
    IF ~mm.ok \/ mm.n <= 0 \/ mm.n > 12 THEN ParseErr ELSE
    LET yv == mm.rest IN
    IF Len(yv) < 4 \/ \E i \in 1..4 : ~isDigit(yv, i) THEN ParseErr ELSE
    LET yy == 1000 * digitVal(yv[1]) + 100 * digitVal(yv[2])
               + 10 * digitVal(yv[3]) + digitVal(yv[4])
        tv == SubSeq(yv, 5, Len(yv))
        dayOK == dd.n >= 1 /\ dd.n <= daysIn(mm.n, yy)
    IN
    IF layout = "date"
    THEN IF tv # <<>> \/ ~dayOK THEN ParseErr
         ELSE [ok |-> TRUE, t |-> [y |-> yy, m |-> mm.n, d |-> dd.n, h |-> 0, mi |-> 0]]
    ELSE
    LET hh == getnum(tv, FALSE) IN
    IF ~hh.ok \/ hh.n >= 24 THEN ParseErr ELSE
    LET dotOK == layout # "dotted" \/ (Len(hh.rest) >= 1 /\ hh.rest[1] = ".")
        mv == IF layout = "dotted" /\ dotOK THEN Tail(hh.rest) ELSE hh.rest
        mn == getnum(mv, TRUE)
    IN
    IF ~dotOK \/ ~mn.ok \/ mn.n >= 60 \/ mn.rest # <<>> \/ ~dayOK THEN ParseErr
    ELSE [ok |-> TRUE, t |-> [y |-> yy, m |-> mm.n, d |-> dd.n, h |-> hh.n, mi |-> mn.n]]

Two(n) == <<Digits[(n \div 10) + 1], Digits[(n % 10) + 1]>>

\* Time.Format(dateFormat): "02012006"
formatDate(t) ==
    Two(t.d) \o Two(t.m) \o Two(t.y \div 100) \o Two(t.y % 100)

\* a replacement that drops the first "1/" whole
undupBoth(s) ==
    LET at == {i \in 1..(Len(s) - 1) : s[i] = "1" /\ s[i+1] = "/"}
    IN  IF at = {} THEN s
        ELSE SubSeq(s, 1, SetMin(at) - 1) \o SubSeq(s, SetMin(at) + 2, Len(s))

\* strings.Replace(s, "1/", "1", 1): the first "1/" loses its slash
undup(s) ==
    LET at == {i \in 1..(Len(s) - 1) : s[i] = "1" /\ s[i+1] = "/"}
    IN  IF at = {} THEN s
        ELSE SubSeq(s, 1, SetMin(at)) \o SubSeq(s, SetMin(at) + 2, Len(s))

RECURSIVE parseDate(_)
parseDate(s) ==
    IF Len(s) = 9
    THEN timeParse("date", SubSeq(s, 1, 2) \o SubSeq(s, 3, 4) \o SubSeq(s, 6, Len(s)))
    ELSE IF Len(s) = 10
    THEN timeParse("date", SubSeq(s, 1, 2) \o SubSeq(s, 4, 5) \o SubSeq(s, 7, Len(s)))
    ELSE IF Len(s) = 11 /\ Len(undup(s)) = 10
    THEN parseDate(undup(s))
    ELSE ParseErr

\* parseTime: the dotted layout first, then the plain one
parseTime(sdate, stime) ==
    LET t1 == timeParse("dotted", sdate \o stime)
    IN  IF t1.ok THEN t1 ELSE timeParse("plain", sdate \o stime)

(***************************************************************************)
(* parseDate on its own: the text grows by one character at a time and     *)
(* parseDate is applied to it.                                             *)
(***************************************************************************)
MaxTextLen == 11

TextAlphabet == {"0", "1", "/"}

Date9 == <<"0", "5", "0", "1", "-", "2", "0", "2", "3">>
Date10 == <<"0", "5", "-", "0", "1", "-", "2", "0", "2", "3">>

ExtraTexts ==
    { Date9, Date10,
      <<"2", "9", "0", "2", "-", "2", "0", "2", "3">>,
      <<"2", "9", "0", "2", "-", "2", "0", "2", "4">>,
      <<"3", "1", "/", "1", "1", "/", "2", "0", "2", "3">>,
      <<"3", "1", "/", "1", "2", "/", "2", "0", "2", "3">>,
      <<"1", "/", "2", "/", "0", "3", "/", "2", "0", "2", "3">>,
      <<"0", "5", "-", "0", "1", "-", "2", "0", "2", "3", "4">> }

InitText ==
    /\ txt \in {<<>>} \cup ExtraTexts
    /\ parsed = parseDate(txt)
    /\ pc = "text"
    /\ img = [k |-> "none"]
    /\ NoGridYet
    /\ res = "none"
    /\ aux = NoAux
    /\ NoScan /\ NoMagic

TypeChar ==
    /\ pc = "text"
    /\ Len(txt) < MaxTextLen
    /\ \E c \in TextAlphabet : txt' = Append(txt, c)
    /\ parsed' = parseDate(txt')
    /\ UNCHANGED <<pc, gridVars, res, scanVars, magic, aux>>

NextText == TypeChar

SpecText == InitText /\ [][NextText]_vars

(***************************************************************************)
(* The cell assigner.  A detection is [Type, Text, Left, Top, Width,       *)
(* Height, Den]: the type is "WORD", "LINE" or "nil" (no type); the box is *)
(* in fractions Left/Den .. of the picture sent to the recognition.  The   *)
(* boxes of the model have Den = 16, so that the float64 arithmetic of     *)
(* center is exact.  An Entry is [date, activity, in, out]: in and out are *)
(* NoTime (a nil pointer) or a time.Time.                                  *)
(***************************************************************************)
NoTime == [set |-> FALSE]
SomeTime(t) == [set |-> TRUE, t |-> t]

zeroEntry == [date |-> zeroTime, activity |-> <<>>, in |-> NoTime, out |-> NoTime]

\* center: the middle of the box in pixels, truncated
center(d, w, h) ==
    [X |-> ((2 * d.Left * w) + (d.Width * w)) \div (2 * d.Den),
     Y |-> ((2 * d.Top * h) + (d.Height * h)) \div (2 * d.Den)]

\* a date string that is empty while the entry has no date
entryDateStringIfSet(e) == IF e.date = zeroTime THEN <<>> ELSE formatDate(e.date)

\* e.date.Format(dateFormat), the date string handed to parseTime
entryDateString(e) == formatDate(e.date)

\* scan, lines 134-138: the Date cell
setDate(es, i, date) ==
    IF ~date.ok THEN [err |-> TRUE, entries |-> <<>>]
    ELSE [err |-> FALSE, entries |-> [es EXCEPT ![i].date = date.t]]

\* a time cell whose unparsable text is skipped
setTimeLenient(es, i, isIn, t) ==
    IF ~t.ok THEN [err |-> FALSE, entries |-> es]
    ELSE IF isIn
         THEN [err |-> FALSE, entries |-> [es EXCEPT ![i].in = SomeTime(t.t)]]
         ELSE [err |-> FALSE, entries |-> [es EXCEPT ![i].out = SomeTime(t.t)]]

\* scan, lines 142-152: the In and Out cells
setTime(es, i, isIn, t) ==
    IF ~t.ok THEN [err |-> TRUE, entries |-> <<>>]
    ELSE IF isIn
         THEN [err |-> FALSE, entries |-> [es EXCEPT ![i].in = SomeTime(t.t)]]
         ELSE [err |-> FALSE, entries |-> [es EXCEPT ![i].out = SomeTime(t.t)]]

\* scan, lines 112-153: one turn of the loop over the sorted detections
scanOne(es, d, rs, cs, w, h) ==
    IF d.Type # "WORD" THEN [err |-> FALSE, entries |-> es]
    ELSE
    LET ctr == center(d, w, h)
        c == ColsFind(cs, ctr.X)
        r == RowsFind(rs, ctr.Y)
    IN
    IF ~c.ok \/ ~r.ok THEN [err |-> FALSE, entries |-> es]
    ELSE
    LET e == es[r.v + 1] IN
    IF c.v = 0 THEN setDate(es, r.v + 1, parseDate(d.Text))
    ELSE IF c.v = 1
    THEN [err |-> FALSE,
          entries |-> [es EXCEPT ![r.v + 1].activity = e.activity \o d.Text]]
    ELSE IF c.v = 2
    THEN setTime(es, r.v + 1, TRUE, parseTime(entryDateString(e), d.Text))
    ELSE IF c.v = 3
    THEN setTime(es, r.v + 1, FALSE, parseTime(entryDateString(e), d.Text))
    ELSE [err |-> FALSE, entries |-> es]

\* sort.Slice by Left: not stable, so equal Lefts come out in any order
SortedByLeft(ds) == \A i \in 1..(Len(ds) - 1) : ds[i].Left <= ds[i+1].Left

(***************************************************************************)
(* scan on the skeleton of a picture prime accepted.                       *)
(***************************************************************************)
MaxDets == 3

\* a table of two rows and three dividers: 4 columns, a gap after the
\* halved first column
ScanImageA == [w |-> ImgW + 3, h |-> ImgH, top |-> MaxRow0, a |-> 0,
               b |-> ImgW + 2, left |-> "black", arms |-> {7, 8, 10},
               marks |-> {2, 4}]
\* the same with one divider only: columns 0 and 1
ScanImageB == [w |-> ImgW + 3, h |-> ImgH, top |-> MaxRow0, a |-> 0,
               b |-> ImgW + 2, left |-> "black", arms |-> {7},
               marks |-> {2, 4}]

ScanImages == {ScanImageA, ScanImageB}

Det(type, text, left, top, width, height) ==
    [Type |-> type, Text |-> text, Left |-> left, Top |-> top,
     Width |-> width, Height |-> height, Den |-> 16]

TimeDotted == <<"1", "5", ".", "0", "4">>
TimePlain == <<"1", "5", "0", "4">>
TimeBad == <<"1", "5", ":", "0", "4">>
DateBad == <<"5", "/", "1", "/", "2", "3">>
WordUnclosed == <<"U", "n", "c", "l", "o", "s", "e", "d">>
WordDay == <<"D", "a", "y">>

\* what the recognition may return: words in the cells of ScanImageA, in
\* its gap, below the table, and detections that are no WORD.  The Date
\* word at Left 6 and the wide In word at Left 6 sort either way.
DetPool ==
    { Det("WORD", Date10, 0, 0, 0, 0),
      Det("WORD", DateBad, 0, 0, 0, 0),
      Det("WORD", Date9, 6, 0, 0, 0),
      Det("WORD", TimePlain, 6, 0, 16, 0),
      Det("WORD", WordUnclosed, 10, 0, 0, 0),
      Det("WORD", WordDay, 10, 0, 6, 0),
      Det("WORD", TimeDotted, 14, 0, 0, 0),
      Det("WORD", TimeBad, 14, 0, 0, 0),
      Det("WORD", TimePlain, 16, 0, 0, 0),
      Det("WORD", TimeDotted, 16, 12, 0, 0),
      Det("WORD", TimeBad, 7, 0, 0, 0),
      Det("WORD", DateBad, 0, 16, 0, 16),
      Det("LINE", DateBad, 0, 0, 0, 0),
      Det("nil", TimeBad, 14, 0, 0, 0) }

RECURSIVE SeqsUpTo(_, _)
SeqsUpTo(S, n) ==
    IF n = 0 THEN {<<>>}
    ELSE LET shorter == SeqsUpTo(S, n - 1)
         IN  shorter \cup {Append(q, x) : q \in shorter, x \in S}

NoLast == [kind |-> "none"]

InitScan ==
    /\ img \in ScanImages
    /\ \E p \in {primeOf(img)} :
        /\ rows = p.rows
        /\ cols = p.cols
        /\ skW = p.W
        /\ skH = p.H
    /\ pc = "rekognition"
    /\ res = "none"
    /\ aux = [k |-> "scan", dated |-> {}, early |-> {}, last |-> NoLast]
    /\ NoText /\ NoScan /\ NoMagic

\* analyze, line 43, and scan, lines 104-109: the detections arrive, the
\* entries are made and the detections sorted
ScanStart ==
    /\ pc = "rekognition"
    /\ \E ds \in SeqsUpTo(DetPool, MaxDets) :
        /\ SortedByLeft(ds)
        /\ dts' = ds
    /\ entries' = [i \in 1..Len(rows) |-> zeroEntry]
    /\ idx' = 1
    /\ pc' = "scan"
    /\ UNCHANGED <<gridVars, res, textVars, magic, aux>>

\* what the turn for detection d is about: the cell it resolves to and
\* whether a date of that row was handled before.  aux.dated are the rows
\* whose date was set, aux.early the rows of which an In or Out cell was
\* handled before any Date cell.
LastOf(d) ==
    LET ctr == center(d, skW, skH)
        c == ColsFind(cols, ctr.X)
        r == RowsFind(rows, ctr.Y)
    IN  IF d.Type # "WORD" \/ ~c.ok \/ ~r.ok
        THEN [kind |-> "skip", before |-> entries]
        ELSE [kind |-> "cell", r |-> r.v, c |-> c.v, text |-> d.Text,
              dated |-> r.v \in aux.dated]

ScanStep ==
    /\ pc = "scan"
    /\ idx <= Len(dts)
    /\ \E o \in {scanOne(entries, dts[idx], rows, cols, skW, skH)},
          l \in {LastOf(dts[idx])} :
        /\ entries' = o.entries
        /\ res' = IF o.err THEN "error" ELSE res
        /\ pc' = IF o.err THEN "done" ELSE pc
        /\ aux' = [aux EXCEPT !.last = l,
                       !.dated = IF l.kind = "cell" /\ l.c = 0 /\ ~o.err
                                 THEN @ \cup {l.r} ELSE @,
                       !.early = IF l.kind = "cell" /\ l.c \in {2, 3} /\ ~l.dated
                                 THEN @ \cup {l.r} ELSE @]
    /\ idx' = idx + 1
    /\ UNCHANGED <<gridVars, dts, textVars, magic>>

ScanReturn ==
    /\ pc = "scan"
    /\ idx > Len(dts)
    /\ res' = "ok"
    /\ pc' = "done"
    /\ UNCHANGED <<gridVars, scanVars, textVars, magic, aux>>

NextScan == ScanStart \/ ScanStep \/ ScanReturn

SpecScan == InitScan /\ [][NextScan]_vars

(***************************************************************************)
(* The analytics.  A time.Duration is modelled in seconds: the durations   *)
(* of the program are sums and quotients of whole minutes, and the         *)
(* rounding to 15 minutes of a quotient truncated to seconds is that of    *)
(* the quotient truncated to nanoseconds (the half, 450 s, is whole in     *)
(* both units).  The texts of the report are strings.                      *)
(***************************************************************************)
Minute == 60
Hour == 60 * Minute

\* Duration.Truncate(m)
RoundDown(d, m) == d - (d % m)

\* Duration.Round(m) for d >= 0: halfway values round up
Round(d, m) ==
    LET r == d % m
    IN  IF r + r < m THEN d - r ELSE d + m - r

extract(e, which) == IF which = "in" THEN e.in ELSE e.out

RECURSIVE averageLoop(_, _, _, _, _)
averageLoop(es, which, i, total, count) ==
    IF i > Len(es) THEN [total |-> total, count |-> count]
    ELSE LET v == extract(es[i], which)
         IN  IF ~v.set THEN averageLoop(es, which, i + 1, total, count)
             ELSE averageLoop(es, which, i + 1,
                              total + v.t.h * Hour + v.t.mi * Minute, count + 1)

\* average: the mean time of day of the set times, rounded to 15 minutes
average(es, which, def) ==
    LET tc == averageLoop(es, which, 1, 0, 0)
    IN  IF tc.count = 0 THEN def
        ELSE Round(tc.total \div tc.count, 15 * Minute)

averageIn(es) == average(es, "in", 9 * Hour)
averageOut(es) == average(es, "out", 17 * Hour)

RECURSIVE Str(_)
Str(cs) == IF cs = <<>> THEN "" ELSE cs[1] \o Str(Tail(cs))

Str2(n) == Digits[(n \div 10) + 1] \o Digits[(n % 10) + 1]

\* Time.Format(prettyDate): "02/01"
prettyDate(t) == Str2(t.d) \o "/" \o Str2(t.m)

\* Time.Format(prettyTime): "15:04"
prettyTime(t) == Str2(t.h) \o ":" \o Str2(t.mi)

\* Time.Add, for the hour and the minute only (all that is printed of it)
addDuration(t, dur) ==
    LET secs == t.h * Hour + t.mi * Minute + dur
    IN  [h |-> (secs \div Hour) % 24, mi |-> (secs % Hour) \div Minute]

ActUnclosedDay == <<"U", "n", "c", "l", "o", "s", "e", "d", "D", "a", "y">>
ActVacation == <<"V", "a", "c", "a", "t", "i", "o", "n", "/", "U", "n", "a">>

\* a fix that is also given for an entry with both times
fixEntryBoth(e, avgIn, avgOut) ==
    IF ~e.in.set /\ ~e.out.set THEN [ok |-> FALSE, txt |-> ""]
    ELSE [ok |-> TRUE,
          txt |-> prettyDate(e.date) \o ": arrived at "
                  \o (IF e.in.set THEN prettyTime(e.in.t)
                      ELSE prettyTime(addDuration(e.date, avgIn)))
                  \o ", left at "
                  \o (IF e.out.set THEN prettyTime(e.out.t)
                      ELSE prettyTime(addDuration(e.date, avgOut)))]

fixEntry(e, avgIn, avgOut) ==
    IF ~e.in.set /\ ~e.out.set THEN [ok |-> FALSE, txt |-> ""]
    ELSE IF e.in.set /\ e.out.set THEN [ok |-> FALSE, txt |-> ""]
    ELSE LET pdate == prettyDate(e.date)
             pin == IF e.in.set THEN prettyTime(e.in.t)
                    ELSE prettyTime(addDuration(e.date, avgIn))
             pout == IF e.in.set THEN prettyTime(addDuration(e.date, avgOut))
                     ELSE prettyTime(e.out.t)
         IN  [ok |-> TRUE,
              txt |-> pdate \o ": arrived at " \o pin \o ", left at " \o pout]

\* a problem that always prints the activity as it is
problemOfPlain(e) == prettyDate(e.date) \o ": " \o Str(e.activity)

\* domagic, lines 258-274: the problem of an entry with an activity
problemOf(e) ==
    IF e.activity = ActUnclosedDay THEN prettyDate(e.date) \o ": Unclosed day"
    ELSE IF e.activity = ActVacation THEN prettyDate(e.date) \o ": Missing report"
    ELSE prettyDate(e.date) \o ": " \o Str(e.activity)

\* domagic, lines 263-268: the fix of an unclosed day, if fixEntry gives one
fixesOf(e, avgIn, avgOut) ==
    IF e.activity # ActUnclosedDay THEN <<>>
    ELSE LET fix == fixEntry(e, avgIn, avgOut)
         IN  IF ~fix.ok THEN <<>> ELSE <<fix.txt>>

RECURSIVE domagicLoop(_, _, _, _, _, _)
domagicLoop(es, i, avgIn, avgOut, problems, fixes) ==
    IF i > Len(es) THEN [Problems |-> problems, Fixes |-> fixes]
    ELSE IF es[i].activity = <<>>
         THEN domagicLoop(es, i + 1, avgIn, avgOut, problems, fixes)
         ELSE domagicLoop(es, i + 1, avgIn, avgOut,
                          Append(problems, problemOf(es[i])),
                          fixes \o fixesOf(es[i], avgIn, avgOut))

domagic(es) ==
    LET avgIn == averageIn(es)
        avgOut == averageOut(es)
        m == domagicLoop(es, 1, avgIn, avgOut, <<>>, <<>>)
    IN  [k |-> "magic", avgIn |-> avgIn, avgOut |-> avgOut,
         Problems |-> m.Problems, Fixes |-> m.Fixes]

(***************************************************************************)
(* domagic on the entries of a scan.                                       *)
(***************************************************************************)
MaxEntries == 3

Day(dd, mm) == [y |-> 2023, m |-> mm, d |-> dd, h |-> 0, mi |-> 0]
Clock(date, hh, mn) == SomeTime([date EXCEPT !.h = hh, !.mi = mn])

Activities == {<<>>, ActUnclosedDay, ActVacation, <<"S", "i", "c", "k">>}

\* a date with: an In time only, no time, both times, an Out time only
Stamps ==
    { [date |-> Day(5, 1), in |-> Clock(Day(5, 1), 8, 47), out |-> NoTime],
      [date |-> Day(6, 1), in |-> NoTime, out |-> NoTime],
      [date |-> Day(31, 12), in |-> Clock(Day(31, 12), 9, 0),
                             out |-> Clock(Day(31, 12), 17, 15)],
      [date |-> Day(9, 1), in |-> NoTime, out |-> Clock(Day(9, 1), 17, 30)] }

EntryPool ==
    { [date |-> s.date, activity |-> a, in |-> s.in, out |-> s.out] :
          s \in Stamps, a \in Activities }
    \cup { [date |-> Day(10, 1), activity |-> <<>>,
            in |-> Clock(Day(10, 1), 9, 30), out |-> NoTime],
           [date |-> Day(11, 1), activity |-> <<>>,
            in |-> NoTime, out |-> Clock(Day(11, 1), 23, 55)] }

InitMagic ==
    /\ entries \in SeqsUpTo(EntryPool, MaxEntries)
    /\ pc = "entries"
    /\ img = [k |-> "none"]
    /\ NoGridYet
    /\ res = "none"
    /\ dts = <<>> /\ idx = 0
    /\ aux = NoAux
    /\ NoText /\ NoMagic

Domagic ==
    /\ pc = "entries"
    /\ magic' = domagic(entries)
    /\ pc' = "done"
    /\ UNCHANGED <<gridVars, res, textVars, scanVars, aux>>

NextMagic == Domagic

SpecMagic == InitMagic /\ [][NextMagic]_vars

(***************************************************************************)
(* Claims about the grid detector and the skeleton index.                  *)
(***************************************************************************)
Coords == (-2)..(ImgH + 1)   \* ImgW <= ImgH

InRow(rs, i, y) == y >= rs[i].Top /\ y <= rs[i].Bottom
InCol(cs, i, x) == x >= cs[i].Left /\ x <= cs[i].Right

\* C1 as stated: on a skeleton prime returns, Find succeeds strictly inside
\* the extent of the rows (columns), fails outside of it, and no coordinate
\* lies in the inclusive range of two different rows (columns).
C1_AsStated ==
    res = "ok" =>
        /\ \A y \in Coords :
            /\ (rows[1].Top < y /\ y < rows[Len(rows)].Bottom) => RowsFind(rows, y).ok
            /\ (y < rows[1].Top \/ y > rows[Len(rows)].Bottom) => ~RowsFind(rows, y).ok
            /\ \A i, j \in 1..Len(rows) :
                  (InRow(rows, i, y) /\ InRow(rows, j, y)) => i = j
        /\ \A x \in Coords :
            /\ (cols[1].Left < x /\ x < cols[Len(cols)].Right) => ColsFind(cols, x).ok
            /\ (x < cols[1].Left \/ x > cols[Len(cols)].Right) => ~ColsFind(cols, x).ok
            /\ \A i, j \in 1..Len(cols) :
                  (InCol(cols, i, x) /\ InCol(cols, j, x)) => i = j

\* the gap the halving of the first column opens before the second column
InGap(cs, x) == Len(cs) >= 2 /\ cs[1].Right < x /\ x < cs[2].Left

\* C1 as amended: on a skeleton prime returns, Rows.Find succeeds exactly on
\* rows[0].Top..rows[last].Bottom; Cols.Find succeeds exactly on
\* cols[0].Left..cols[last].Right less the gap between the halved first
\* column and the second one; a coordinate lies in two ranges only where two
\* neighbours meet (Bottom of one = Top of the next), and Find then answers
\* the earlier one.
C1_FindExtent ==
    res = "ok" =>
        /\ \A y \in Coords :
            /\ RowsFind(rows, y).ok <=>
                  (rows[1].Top <= y /\ y <= rows[Len(rows)].Bottom)
            /\ \A i, j \in 1..Len(rows) :
                  (i < j /\ InRow(rows, i, y) /\ InRow(rows, j, y)) =>
                      /\ j = i + 1
                      /\ y = rows[i].Bottom /\ y = rows[j].Top
                      /\ RowsFind(rows, y).v < rows[j].Num
            /\ \A i \in 1..Len(rows) :
                  (RowsFind(rows, y).ok /\ RowsFind(rows, y).v = rows[i].Num)
                      => InRow(rows, i, y)
        /\ \A x \in Coords :
            /\ ColsFind(cols, x).ok <=>
                  /\ cols[1].Left <= x /\ x <= cols[Len(cols)].Right
                  /\ ~InGap(cols, x)
            /\ \A i, j \in 1..Len(cols) :
                  (i < j /\ InCol(cols, i, x) /\ InCol(cols, j, x)) =>
                      /\ j = i + 1
                      /\ x = cols[i].Right /\ x = cols[j].Left
                      /\ ColsFind(cols, x).v < cols[j].Num
            /\ \A i \in 1..Len(cols) :
                  (ColsFind(cols, x).ok /\ ColsFind(cols, x).v = cols[i].Num)
                      => InCol(cols, i, x)

\* a returned skeleton with two rows meeting and a gap after the first column
C1_Witness ==
    /\ res = "ok"
    /\ Len(rows) >= 2
    /\ Len(cols) = 4
    /\ \E x \in Coords : InGap(cols, x)
    /\ RowsFind(rows, rows[1].Bottom) = Found(0)

\* C3 as stated: on a skeleton prime returns, Top < Bottom <= next Top for
\* the rows and Left < Right <= next Left for the columns.
C3_Ordered ==
    res = "ok" =>
        /\ \A i \in 1..Len(rows) :
            /\ rows[i].Top < rows[i].Bottom
            /\ i < Len(rows) => rows[i].Bottom <= rows[i+1].Top
        /\ \A i \in 1..Len(cols) :
            /\ cols[i].Left < cols[i].Right
            /\ i < Len(cols) => cols[i].Right <= cols[i+1].Left

\* C4 as stated: prime ends by returning a skeleton or an error
C4_ReturnsOrFails ==
    pc = "done" => res \in {"ok", "error"}

\* C2 as stated: a second Shift by the same offsets leaves every bound as it
\* was after the first one.
C2_SameOffsetIdempotent ==
    (pc = "shifted" /\ aux.same > 0) => (rows = aux.rows1 /\ cols = aux.cols1)

\* C2 as amended: Shift is cumulative; after k further Shifts by the same
\* offsets every bound is k offsets away from its value after the first
\* one, and a Shift by the offsets computed anew (-rows[0].Top,
\* -cols[0].Left of the skeleton as it is) brings every bound back to it.
C2_ShiftCumulative ==
    pc = "shifted" =>
        /\ Len(rows) = Len(aux.rows1) /\ Len(cols) = Len(aux.cols1)
        /\ \A i \in 1..Len(rows) :
            /\ rows[i].Top = aux.rows1[i].Top + aux.same * aux.offR
            /\ rows[i].Bottom = aux.rows1[i].Bottom + aux.same * aux.offR
        /\ \A i \in 1..Len(cols) :
            /\ cols[i].Left = aux.cols1[i].Left + aux.same * aux.offC
            /\ cols[i].Right = aux.cols1[i].Right + aux.same * aux.offC
        /\ aux.same = 0 => (rows[1].Top = 0 /\ cols[1].Left = 0)

\* shifted twice by the same non-zero offsets
C2_Witness ==
    /\ pc = "shifted"
    /\ aux.same = 2
    /\ aux.offR < 0 /\ aux.offC < 0
    /\ rows[1].Top = 2 * aux.offR
    /\ cols[1].Left = 2 * aux.offC

(***************************************************************************)
(* Claims about parseDate.                                                 *)
(***************************************************************************)
\* s without the characters at the positions in I
Without(s, I) ==
    LET keep == {i \in 1..Len(s) : i \notin I}
        nth(k) == CHOOSE i \in keep : Cardinality({j \in keep : j < i}) = k - 1
    IN  [k \in 1..Cardinality(keep) |-> s[nth(k)]]

MonthLen == <<31, 28, 31, 30, 31, 30, 31, 31, 30, 31, 30, 31>>

Num(s, i, j) ==
    LET RECURSIVE val(_)
        val(k) == IF k < i THEN 0 ELSE 10 * val(k - 1) + digitVal(s[k])
    IN  val(j)

\* eight digits read as day, month, year of a date of the calendar
DayMonthYear(e) ==
    IF Len(e) # 8 \/ \E i \in 1..8 : e[i] \notin {Digits[k] : k \in 1..10}
    THEN [ok |-> FALSE]
    ELSE LET dy == Num(e, 1, 2)
             mo == Num(e, 3, 4)
             yr == Num(e, 5, 8)
             feb29 == (yr % 400 = 0) \/ (yr % 4 = 0 /\ yr % 100 # 0)
         IN  IF mo < 1 \/ mo > 12 \/ dy < 1 THEN [ok |-> FALSE]
             ELSE IF dy > MonthLen[mo] /\ ~(mo = 2 /\ dy = 29 /\ feb29)
             THEN [ok |-> FALSE]
             ELSE [ok |-> TRUE, d |-> dy, m |-> mo, y |-> yr]

FirstOneSlash(s) == {i \in 1..(Len(s) - 1) :
                        /\ s[i] = "1" /\ s[i+1] = "/"
                        /\ \A j \in 1..(i - 1) : ~(s[j] = "1" /\ s[j+1] = "/")}

Agrees(p, q) ==
    /\ p.ok = q.ok
    /\ p.ok => (p.t.d = q.d /\ p.t.m = q.m /\ p.t.y = q.y)

\* the normalization as the claim has it: for length 11 the two characters
\* of the first "1/" are removed
Claimed(s) ==
    IF Len(s) = 9 THEN DayMonthYear(Without(s, {5}))
    ELSE IF Len(s) = 10 THEN DayMonthYear(Without(s, {3, 6}))
    ELSE IF Len(s) = 11
    THEN LET u == Without(s, UNION {{i, i + 1} : i \in FirstOneSlash(s)})
         IN  IF Len(u) = 10 THEN DayMonthYear(Without(u, {3, 6}))
             ELSE [ok |-> FALSE]
    ELSE [ok |-> FALSE]

\* C7 as stated: parseDate agrees with the claim's normalization on every text
C7_AsStated == Agrees(parsed, Claimed(txt))

\* the normalization of the code: for length 11 the first "1/" loses its
\* slash only
Described(s) ==
    IF Len(s) = 9 THEN DayMonthYear(Without(s, {5}))
    ELSE IF Len(s) = 10 THEN DayMonthYear(Without(s, {3, 6}))
    ELSE IF Len(s) = 11 /\ FirstOneSlash(s) # {}
    THEN LET u == Without(s, {i + 1 : i \in FirstOneSlash(s)})
         IN  DayMonthYear(Without(u, {3, 6}))
    ELSE [ok |-> FALSE]

\* C7 as amended: length 9 drops the character at index 4, length 10 those
\* at indices 2 and 5; length 11 drops the slash of the first "1/" (the "1"
\* stays) and goes on as length 10, and fails if there is no "1/"; every
\* other length fails; the 8 characters left are read as day, month, year,
\* so "0501-2023" and "05-01-2023" are both 5 January 2023.
C7_ParseDate ==
    /\ Agrees(parsed, Described(txt))
    /\ txt \in {Date9, Date10} =>
           (parsed.ok /\ parsed.t = [y |-> 2023, m |-> 1, d |-> 5, h |-> 0, mi |-> 0])

\* a text of length 11 that parseDate accepts
C7_Witness ==
    /\ Len(txt) = 11
    /\ parsed.ok
    /\ parsed.t.d = 11

(***************************************************************************)
(* Claims about scan.                                                      *)
(***************************************************************************)
\* a time text of the form HH.MM or HHMM
WellFormedTime(t) ==
    LET ds == IF Len(t) = 5 /\ t[3] = "." THEN Without(t, {3}) ELSE t
    IN  /\ Len(ds) = 4
        /\ \A i \in 1..4 : ds[i] \in {Digits[k] : k \in 1..10}
        /\ Num(ds, 1, 2) < 24
        /\ Num(ds, 3, 4) < 60

ClockOf(t) ==
    LET ds == IF Len(t) = 5 THEN Without(t, {3}) ELSE t
    IN  [h |-> Num(ds, 1, 2), mi |-> Num(ds, 3, 4)]

\* the last turn of the loop handled an In or Out cell of a row of which no
\* Date cell had been handled
LastEarly ==
    /\ aux.k = "scan"
    /\ aux.last.kind = "cell"
    /\ aux.last.c \in {2, 3}
    /\ ~aux.last.dated

\* C5 as stated: an In or Out detection handled before any Date detection
\* of its row makes scan return an error, also for a well-formed time text
C5_AsStated ==
    (LastEarly /\ WellFormedTime(aux.last.text)) => res = "error"

\* C5 as amended: an In or Out detection handled before any Date detection
\* of its row (or with none at all) is parsed against the date string of the
\* zero date, "01010001": a well-formed time text such as "15.04" or "1504"
\* parses, scan does not fail on it, and the entry gets that hour and minute
\* on 1 January of year 1.
C5_ZeroDate ==
    (LastEarly /\ WellFormedTime(aux.last.text)) =>
        /\ res # "error"
        /\ LET e == entries[aux.last.r + 1]
               f == IF aux.last.c = 2 THEN e.in ELSE e.out
               k == ClockOf(aux.last.text)
           IN  /\ f.set
               /\ f.t = [y |-> 1, m |-> 1, d |-> 1, h |-> k.h, mi |-> k.mi]
               /\ e.date = zeroTime

\* scan returned entries after an In cell was handled before the Date cell
\* of its row: the time is of year 1, the date of 2023
C5_Witness ==
    /\ aux.k = "scan"
    /\ pc = "done"
    /\ res = "ok"
    /\ \E r \in aux.early \cap aux.dated :
        /\ entries[r + 1].in.set
        /\ entries[r + 1].in.t = [y |-> 1, m |-> 1, d |-> 1, h |-> 15, mi |-> 4]
        /\ entries[r + 1].date.y = 2023

\* a WORD whose center resolves to a cell
Resolves(d) ==
    /\ d.Type = "WORD"
    /\ ColsFind(cols, center(d, skW, skH).X).ok
    /\ RowsFind(rows, center(d, skW, skH).Y).ok

\* ... and whose text does not parse as the cell wants it
BadText(d) ==
    LET c == ColsFind(cols, center(d, skW, skH).X).v
    IN  \/ c = 0 /\ ~parseDate(d.Text).ok
        \/ c \in {2, 3} /\ ~parseTime(formatDate(zeroTime), d.Text).ok

\* C6: scan returns an error and no entries if some WORD resolving to a cell
\* has a text that fails the date parsing (column 0) or the time parsing
\* (columns 2 and 3), and else len(rows) entries and no error; a detection
\* that is no WORD or misses the rows or the columns causes no error and
\* changes no entry.
C6_AllOrNothing ==
    aux.k = "scan" =>
        /\ pc = "done" =>
              IF \E i \in 1..Len(dts) : Resolves(dts[i]) /\ BadText(dts[i])
              THEN res = "error" /\ entries = <<>>
              ELSE res = "ok" /\ Len(entries) = Len(rows)
        /\ aux.last.kind = "skip" =>
              (res # "error" /\ entries = aux.last.before)
        /\ (pc = "scan" /\ idx > 1 /\ ~Resolves(dts[idx - 1])) =>
              aux.last.kind = "skip"

\* a date was set, then a later detection failed: no entries are returned
C6_Witness ==
    /\ aux.k = "scan"
    /\ pc = "done"
    /\ res = "error"
    /\ entries = <<>>
    /\ aux.dated # {}
    /\ \E i \in 1..Len(dts) : ~Resolves(dts[i])

(***************************************************************************)
(* Claims about the analytics.                                             *)
(***************************************************************************)
\* the minutes since midnight of the set times of the entries, summed
RECURSIVE MinuteSum(_, _)
MinuteSum(es, which) ==
    IF es = <<>> THEN 0
    ELSE LET v == IF which = "in" THEN es[1].in ELSE es[1].out
         IN  (IF v.set THEN 60 * v.t.h + v.t.mi ELSE 0) + MinuteSum(Tail(es), which)

SetCount(es, which) ==
    Cardinality({i \in 1..Len(es) :
                    IF which = "in" THEN es[i].in.set ELSE es[i].out.set})

\* avg seconds is the default if no time is set, and else the multiple of
\* 15 minutes nearest to sum / count (the upper one of two nearest)
IsAverage(avg, es, which, def) ==
    LET n == SetCount(es, which)
        total == MinuteSum(es, which)
        q == avg \div 60
    IN  IF n = 0 THEN avg = def
        ELSE /\ avg % 900 = 0
             /\ 2 * (q * n - total) <= 15 * n
             /\ 2 * (total - q * n) < 15 * n

InTimes(es) == [i \in 1..Len(es) |->
                  IF es[i].in.set THEN <<es[i].in.t.h, es[i].in.t.mi>> ELSE <<>>]

\* C8: average returns the default (09:00 for In, 17:00 for Out) when no
\* entry has the time set, and else sum / count of the minutes since midnight
\* rounded to the nearest multiple of 15 minutes; [09:00, 09:30] gives 09:15.
C8_Average ==
    magic.k = "magic" =>
        /\ IsAverage(magic.avgIn, entries, "in", 9 * 3600)
        /\ IsAverage(magic.avgOut, entries, "out", 17 * 3600)
        /\ InTimes(entries) = << <<9, 0>>, <<9, 30>> >> =>
               magic.avgIn = 9 * 3600 + 15 * 60

\* the average of 08:47 and 09:30 is rounded up to 09:15, the Out default kept
C8_Witness ==
    /\ magic.k = "magic"
    /\ InTimes(entries) = << <<8, 47>>, <<9, 30>>, <<>> >>
    /\ magic.avgIn = 9 * 3600 + 15 * 60
    /\ SetCount(entries, "out") = 0
    /\ magic.avgOut = 17 * 3600

\* the entries that have an activity, in their order
Named(es) == SelectSeq(es, LAMBDA e : e.activity # <<>>)

ProblemLabel(e) ==
    IF e.activity = ActUnclosedDay THEN "Unclosed day"
    ELSE IF e.activity = ActVacation THEN "Missing report"
    ELSE Str(e.activity)

\* C9: Problems has one string per entry with an activity, in entry order,
\* and none for the others: "<date>: Unclosed day" for "UnclosedDay",
\* "<date>: Missing report" for "Vacation/Una", "<date>: <activity>" else.
C9_Problems ==
    magic.k = "magic" =>
        /\ Len(magic.Problems) = Len(Named(entries))
        /\ \A k \in 1..Len(magic.Problems) :
              magic.Problems[k] =
                  prettyDate(Named(entries)[k].date) \o ": "
                      \o ProblemLabel(Named(entries)[k])

\* three problems of the three kinds, after an entry without activity
C9_Witness ==
    /\ magic.k = "magic"
    /\ Len(entries) = 3
    /\ magic.Problems = <<"05/01: Unclosed day", "06/01: Missing report", "31/12: Sick">>

\* the unclosed days with exactly one time set, in their order
Fixable(es) ==
    SelectSeq(es, LAMBDA e : e.activity = ActUnclosedDay /\ (e.in.set # e.out.set))

\* HH:MM of the time of day secs seconds after midnight
ClockText(secs) ==
    Str2((secs \div 3600) % 24) \o ":" \o Str2((secs % 3600) \div 60)

\* C10: Fixes has one string per entry whose activity is "UnclosedDay" and
\* which has exactly one of in and out set, in entry order, and none for the
\* others (whose problem is still in Problems); the fix keeps the set time
\* and takes the other from the average: "<date>: arrived at <in>, left at
\* <average out>", or "... arrived at <average in>, left at <out>".
C10_Fixes ==
    magic.k = "magic" =>
        /\ Len(magic.Fixes) = Len(Fixable(entries))
        /\ \A k \in 1..Len(magic.Fixes) :
              LET e == Fixable(entries)[k]
              IN  magic.Fixes[k] =
                      prettyDate(e.date) \o ": arrived at "
                      \o (IF e.in.set THEN ClockText(3600 * e.in.t.h + 60 * e.in.t.mi)
                          ELSE ClockText(magic.avgIn))
                      \o ", left at "
                      \o (IF e.out.set THEN ClockText(3600 * e.out.t.h + 60 * e.out.t.mi)
                          ELSE ClockText(magic.avgOut))
        /\ Len(magic.Problems) >= Len(magic.Fixes)

\* an unclosed day without times gets no fix, the later one with In only does
C10_Witness ==
    /\ magic.k = "magic"
    /\ Len(entries) = 2
    /\ entries[1].activity = ActUnclosedDay
    /\ ~entries[1].in.set /\ ~entries[1].out.set
    /\ magic.Problems = <<"06/01: Unclosed day", "05/01: Unclosed day">>
    /\ magic.Fixes = <<"05/01: arrived at 08:47, left at 17:00">>

(***************************************************************************)
(* Claims about the columns of the schema.                                 *)
(***************************************************************************)
\* the width of a column
Width(c) == c.Right - c.Left

\* C11: whenever prime succeeds, the skeleton has exactly 4 columns with Num
\* 0, 1, 2, 3 from left to right, made of exactly 3 raw columns of findCols
\* by splitting the last one at its midpoint into two columns of equal
\* width; so every column number Cols.Find answers is in 0..3.
C11_FourColumns ==
    res = "ok" =>
        /\ Len(detect(img).cols) = 3
        /\ Len(cols) = 4
        /\ \A i \in 1..Len(cols) : cols[i].Num = i - 1
        /\ \A i \in 1..(Len(cols) - 1) : cols[i].Left <= cols[i + 1].Left
        /\ cols[3].Right = cols[4].Left
        /\ Width(cols[3]) = Width(cols[4])
        /\ \A x \in Coords : ColsFind(cols, x).ok => ColsFind(cols, x).v \in 0..3

====
